---- MODULE Spec2Model ----
(***************************************************************************)
(* Compliance scoring engine of validate-compliance.py:                    *)
(*   ValidationResult / CategoryResult, ComplianceValidator._add_result,   *)
(*   the eight category evaluators, validate_all (scores, overall score,   *)
(*   grade), print_results / export_json and main's exit status.           *)
(*                                                                         *)
(* Modelling conventions                                                   *)
(*   - A Python str that the code takes apart (lower, replace, rstrip,     *)
(*     endswith, "in") is a sequence of atoms: every separator character   *)
(*     (" ", "_", "/", ".", ":") is an atom of its own and a run of other   *)
(*     characters is one atom.  A str that is only compared or looked up   *)
(*     (category names, paths, severities, grade labels) is a TLA+ string. *)
(*   - A Python dict is a function; a missing key is a key outside its     *)
(*     DOMAIN.  A dict whose iteration order matters (self.results,        *)
(*     compliance_grading) is the sequence of its items in insertion order.*)
(*   - A float is the exact rational [num, den] in lowest terms.           *)
(*   - Optional[str] is [none |-> BOOLEAN, text |-> str].                  *)
(*   - ValidationResult.message and .details never influence control flow  *)
(*     or tallies and are left out of the outcome record.                  *)
(***************************************************************************)
EXTENDS Integers, Sequences, FiniteSets, TLC

VARIABLES
    config,         \* self.config: rules-config.json, read once
    project,        \* the project snapshot under self.project_path
    results,        \* self.results: CategoryResult items in insertion order
    pc,             \* position in main()
    overall_score,  \* validate_all's overall_score
    total_weight,   \* validate_all's total_weight
    grade,          \* validate_all's grade
    report,         \* category names of export_json's 'categories'
    exit_code       \* the process exit status (-1 while running)

vars == <<config, project, results, pc, overall_score, total_weight, grade,
          report, exit_code>>

----------------------------------------------------------------------------
(* Exact rationals standing for Python floats.                             *)

RECURSIVE GCD(_, _)
GCD(a, b) == IF b = 0 THEN a ELSE GCD(b, a % b)

Rat(n, d) ==
    LET g == GCD(n, d)
    IN  IF g = 0 THEN [num |-> 0, den |-> 1] ELSE [num |-> n \div g, den |-> d \div g]

FromInt(n) == [num |-> n, den |-> 1]
Zero == FromInt(0)
RatAdd(a, b) ==
    LET l == (a.den * b.den) \div GCD(a.den, b.den)
    IN  Rat(a.num * (l \div a.den) + b.num * (l \div b.den), l)
RatMul(a, b) == Rat(a.num * b.num, a.den * b.den)
RatDiv(a, b) == Rat(a.num * b.den, a.den * b.num)
RatGE(a, b) == a.num * b.den >= b.num * a.den
RatLT(a, b) == ~RatGE(a, b)

----------------------------------------------------------------------------
(* Python floats as they are: IEEE-754 binary64, every operation rounded   *)
(* to nearest, ties to even.  A float is m * 2^e with m an integer of      *)
(* exactly Precision bits (or m = 0), and m is a sequence of digits in     *)
(* base 2^15, least significant first, so that no step leaves 32 bits.     *)
(* The rationals above give the exact value of an expression, these        *)
(* operators the value the interpreter computes; they differ by rounding.  *)

Precision == 53
Base == 2^15

RECURSIVE BigFromInt(_)
BigFromInt(n) == IF n = 0 THEN <<>> ELSE <<n % Base>> \o BigFromInt(n \div Base)

RECURSIVE Trim(_)
Trim(a) ==
    IF a # <<>> /\ a[Len(a)] = 0 THEN Trim(SubSeq(a, 1, Len(a) - 1)) ELSE a

RECURSIVE BigMulCarry(_, _, _)
BigMulCarry(a, k, carry) ==
    IF a = <<>> THEN BigFromInt(carry)
    ELSE LET v == Head(a) * k + carry
         IN  <<v % Base>> \o BigMulCarry(Tail(a), k, v \div Base)

\* a * k for 0 <= k <= Base
BigMulSmall(a, k) == IF k = 0 THEN <<>> ELSE BigMulCarry(a, k, 0)

\* quotient digits 1..i and remainder of a by d, from the top digit down
RECURSIVE BigDivFrom(_, _, _, _)
BigDivFrom(a, d, i, rem) ==
    IF i = 0 THEN [q |-> <<>>, r |-> rem]
    ELSE LET v == rem * Base + a[i]
             rest == BigDivFrom(a, d, i - 1, v % d)
         IN  [q |-> Append(rest.q, v \div d), r |-> rest.r]

\* a divided by d for 1 <= d <= Base
BigDivSmall(a, d) ==
    LET x == BigDivFrom(a, d, Len(a), 0)
    IN  [q |-> Trim(x.q), r |-> x.r]

RECURSIVE BigAddCarry(_, _, _)
BigAddCarry(a, b, carry) ==
    IF a = <<>> /\ b = <<>> THEN BigFromInt(carry)
    ELSE LET v == (IF a = <<>> THEN 0 ELSE Head(a))
                  + (IF b = <<>> THEN 0 ELSE Head(b)) + carry
         IN  <<v % Base>> \o BigAddCarry(IF a = <<>> THEN <<>> ELSE Tail(a),
                                         IF b = <<>> THEN <<>> ELSE Tail(b),
                                         v \div Base)

BigAdd(a, b) == BigAddCarry(a, b, 0)

RECURSIVE IntBitLen(_)
IntBitLen(n) == IF n = 0 THEN 0 ELSE 1 + IntBitLen(n \div 2)

BigBitLen(a) == IF a = <<>> THEN 0 ELSE 15 * (Len(a) - 1) + IntBitLen(a[Len(a)])

\* a * 2^n
RECURSIVE BigShl(_, _)
BigShl(a, n) ==
    IF n = 0 \/ a = <<>> THEN a
    ELSE IF n >= 15 THEN BigShl(<<0>> \o a, n - 15)
    ELSE BigMulSmall(a, 2^n)

\* a \div 2^n, and whether a nonzero bit was shifted out
RECURSIVE BigShr(_, _, _)
BigShr(a, n, sticky) ==
    IF n = 0 \/ a = <<>> THEN [q |-> a, sticky |-> sticky]
    ELSE IF n >= 15 THEN BigShr(Tail(a), n - 15, sticky \/ Head(a) # 0)
    ELSE LET x == BigDivSmall(a, 2^n)
         IN  [q |-> x.q, sticky |-> sticky \/ x.r # 0]

RECURSIVE BigGEFrom(_, _, _)
BigGEFrom(a, b, i) ==
    IF i = 0 THEN TRUE
    ELSE IF a[i] # b[i] THEN a[i] > b[i]
    ELSE BigGEFrom(a, b, i - 1)

BigGE(a, b) == IF Len(a) # Len(b) THEN Len(a) > Len(b) ELSE BigGEFrom(a, b, Len(a))

Float64Zero == [m |-> <<>>, e |-> 0]

\* q has Precision + 1 bits and stands for a value in [q, q + 1) * 2^e,
\* above q when sticky: round the last bit away, ties to even
RoundHalfEven(q, sticky, e) ==
    LET half == BigDivSmall(q, 2)
        up == half.r = 1 /\ (sticky \/ half.q[1] % 2 = 1)
        m == IF up THEN BigAdd(half.q, <<1>>) ELSE half.q
    IN  IF BigBitLen(m) > Precision
        THEN [m |-> BigDivSmall(m, 2).q, e |-> e + 2]
        ELSE [m |-> m, e |-> e + 1]

\* the float nearest to (n / d) * 2^e, for 1 <= d < Base
RECURSIVE RoundRatio(_, _, _)
RoundRatio(n, d, e) ==
    IF n = <<>> THEN Float64Zero
    ELSE LET whole == BigDivSmall(n, d)
             len == BigBitLen(whole.q)
         IN  IF len = 0 THEN RoundRatio(BigShl(n, 15), d, e - 15)
             ELSE IF len <= Precision
                  THEN LET up == Precision + 1 - len
                           x == BigDivSmall(BigShl(n, up), d)
                       IN  RoundHalfEven(x.q, x.r # 0, e - up)
                  ELSE LET down == len - (Precision + 1)
                           x == BigShr(whole.q, down, whole.r # 0)
                       IN  RoundHalfEven(x.q, x.sticky, e + down)

Float64OfInt(n) == RoundRatio(BigFromInt(n), 1, 0)
\* n * 0.5
Float64OfHalves(n) == RoundRatio(BigFromInt(n), 2, 0)
Float64DivInt(x, d) == RoundRatio(x.m, d, x.e)
Float64MulInt(x, k) == RoundRatio(BigMulSmall(x.m, k), 1, x.e)

Float64Add(x, y) ==
    IF x.m = <<>> THEN y
    ELSE IF y.m = <<>> THEN x
    ELSE LET e == IF x.e < y.e THEN x.e ELSE y.e
         IN  RoundRatio(BigAdd(BigShl(x.m, x.e - e), BigShl(y.m, y.e - e)), 1, e)

Float64GE(x, y) ==
    IF y.m = <<>> THEN TRUE
    ELSE IF x.m = <<>> THEN FALSE
    ELSE IF x.e # y.e THEN x.e > y.e
    ELSE BigGE(x.m, y.m)

----------------------------------------------------------------------------
(* Python str and dict helpers.                                            *)

\* d.get(k, default)
Get(d, k, default) == IF k \in DOMAIN d THEN d[k] ELSE default

\* str.lower() on the atoms the configurations use
LowerAtom(a) ==
    CASE a = "Quick" -> "quick"
      [] a = "Start" -> "start"
      [] a = "Testing" -> "testing"
      [] OTHER -> a
Lower(s) == [i \in 1..Len(s) |-> LowerAtom(s[i])]

\* str.replace(old, new) for a one-character old and new
Replace(s, old, new) == [i \in 1..Len(s) |-> IF s[i] = old THEN new ELSE s[i]]

\* str.rstrip(ch)
RECURSIVE RStrip(_, _)
RStrip(s, ch) ==
    IF Len(s) > 0 /\ s[Len(s)] = ch THEN RStrip(SubSeq(s, 1, Len(s) - 1), ch) ELSE s

\* pattern in content
Contains(content, pattern) ==
    \E i \in 1..(Len(content) - Len(pattern) + 1) :
        SubSeq(content, i, i + Len(pattern) - 1) = pattern

\* name.endswith(suffix)
EndsWith(s, suffix) ==
    /\ Len(suffix) <= Len(s)
    /\ SubSeq(s, Len(s) - Len(suffix) + 1, Len(s)) = suffix

----------------------------------------------------------------------------
(* ValidationResult, CategoryResult and _add_result.                       *)

Categories ==
    {"hooks", "documentation", "testing", "quality_gates", "git", "security",
     "naming_conventions", "migrations"}

Severities == {"critical", "warning", "info"}

ValidationResult(category, check_name, passed, severity) ==
    [category |-> category, check_name |-> check_name, passed |-> passed,
     severity |-> severity]

DefaultWeight == 10

CategoryResult(name, weight) ==
    [name |-> name, weight |-> weight, checks_passed |-> 0, checks_failed |-> 0,
     checks_warned |-> 0, score |-> Zero, results |-> <<>>]

\* category in self.results / self.results[category]
HasCategory(res, category) == \E i \in 1..Len(res) : res[i].name = category
IndexOf(res, category) == CHOOSE i \in 1..Len(res) : res[i].name = category

\* self.config['validation_categories'].get(category, {}).get('weight', 10)
WeightOf(cfg, category) ==
    Get(Get(cfg.validation_categories, category, <<>>), "weight", DefaultWeight)

TallyMutInfoAsFailed(cat, result) ==
    IF result.passed
    THEN [cat EXCEPT !.checks_passed = @ + 1]
    ELSE IF result.severity \in {"critical", "info"}
         THEN [cat EXCEPT !.checks_failed = @ + 1]
         ELSE [cat EXCEPT !.checks_warned = @ + 1]

TallyMutDropsPassed(cat, result) ==
    IF result.passed
    THEN cat
    ELSE IF result.severity = "critical"
         THEN [cat EXCEPT !.checks_failed = @ + 1]
         ELSE [cat EXCEPT !.checks_warned = @ + 1]

\* the counter update of _add_result
Tally(cat, result) ==
    IF result.passed
    THEN [cat EXCEPT !.checks_passed = @ + 1]
    ELSE IF result.severity = "critical"
         THEN [cat EXCEPT !.checks_failed = @ + 1]
         ELSE [cat EXCEPT !.checks_warned = @ + 1]

AddResultMutPrepends(res, cfg, result) ==
    LET category == result.category
        res1 == IF HasCategory(res, category)
                THEN res
                ELSE Append(res, CategoryResult(category, WeightOf(cfg, category)))
        i == IndexOf(res1, category)
        cat == [res1[i] EXCEPT !.results = <<result>> \o @]
    IN  [res1 EXCEPT ![i] = Tally(cat, result)]

AddResult(res, cfg, result) ==
    LET category == result.category
        res1 == IF HasCategory(res, category)
                THEN res
                ELSE Append(res, CategoryResult(category, WeightOf(cfg, category)))
        i == IndexOf(res1, category)
        cat == [res1[i] EXCEPT !.results = Append(@, result)]
    IN  [res1 EXCEPT ![i] = Tally(cat, result)]

\* _add_result for each outcome in turn (each call completes, and its
\* result has at least one category, before the next begins)
RECURSIVE AddResults(_, _, _)
AddResults(res, cfg, outcomes) ==
    IF outcomes = <<>> THEN res
    ELSE LET next == AddResult(res, cfg, Head(outcomes))
         IN  IF Len(next) > 0 THEN AddResults(next, cfg, Tail(outcomes)) ELSE next

----------------------------------------------------------------------------
(* Project snapshot access: _file_exists, _read_file, _check_file_contains.*)

None == [none |-> TRUE, text |-> <<>>]
Some(text) == [none |-> FALSE, text |-> text]

FileExists(proj, path) == path \in proj.exists

ReadFile(proj, path) ==
    IF FileExists(proj, path)
    THEN IF path \in proj.unreadable THEN None ELSE Some(Get(proj.text, path, <<>>))
    ELSE None

CheckFileContains(proj, path, pattern) ==
    LET content == ReadFile(proj, path)
    IN  ~content.none /\ Contains(content.text, pattern)

\* truthiness of an Optional[str]: neither None nor ""
Truthy(content) == ~content.none /\ content.text # <<>>

\* the first path of the list that exists, by its index; 0 when none does
FirstExisting(proj, paths) ==
    IF \E i \in 1..Len(paths) : FileExists(proj, paths[i])
    THEN CHOOSE i \in 1..Len(paths) :
            /\ FileExists(proj, paths[i])
            /\ \A j \in 1..(i - 1) : ~FileExists(proj, paths[j])
    ELSE 0

\* [x for x in s if Test(x)]
RECURSIVE SelectSeqOf(_, _)
SelectSeqOf(s, keep) ==
    IF s = <<>> THEN <<>>
    ELSE (IF Head(s) \in keep THEN <<Head(s)>> ELSE <<>>) \o SelectSeqOf(Tail(s), keep)

Range(s) == {s[i] : i \in 1..Len(s)}

----------------------------------------------------------------------------
(* What an evaluator does: the outcomes it hands to _add_result, in order, *)
(* and whether it then ends in an uncaught exception.                      *)

Emit(outcomes) == [out |-> outcomes, crash |-> FALSE]
Raise == [out |-> <<>>, crash |-> TRUE]
Skip == Emit(<<>>)

\* statement sequencing: b runs only if a did not raise
Then(a, b) == IF a.crash THEN a ELSE [out |-> a.out \o b.out, crash |-> b.crash]

\* ========== Hooks Validation ==========
LefthookPath(proj) == FirstExisting(proj, <<".lefthook.yml", "lefthook.yml">>)

HookCommandOutcomes(proj, path, prefix, commands) ==
    [i \in 1..Len(commands) |->
        ValidationResult("hooks", <<prefix>> \o commands[i],
                         CheckFileContains(proj, path, commands[i] \o <<":">>),
                         "warning")]

validate_hooks(cfg, proj) ==
    IF ~cfg.hooks.enabled THEN Skip
    ELSE
        LET paths == <<".lefthook.yml", "lefthook.yml">>
            found == LefthookPath(proj)
            lefthook_exists == found # 0
        IN  Then(Emit(<<ValidationResult("hooks", <<"lefthook_config_exists">>,
                                         lefthook_exists, "critical")>>),
            Then(IF lefthook_exists
                 THEN Emit(HookCommandOutcomes(proj, paths[found], "pre_commit_",
                                               cfg.hooks.pre_commit_commands)
                           \o HookCommandOutcomes(proj, paths[found], "pre_push_",
                                                  cfg.hooks.pre_push_commands))
                 ELSE Skip,
                 Emit(<<ValidationResult("hooks", <<"claude_settings_exists">>,
                                         FileExists(proj, ".claude/settings.json"),
                                         "warning")>>)))

\* ========== Documentation Validation ==========
SectionCheckName(section) ==
    <<"claude_section_">> \o Replace(Lower(section), " ", "_")

ClaudeSectionOutcomes(cfg, proj) ==
    LET claude_content == ReadFile(proj, "CLAUDE.md")
        sections == cfg.documentation.required_claude_sections
    IN  IF sections = <<>> THEN Skip
        ELSE IF claude_content.none THEN Raise   \* "in" on None: TypeError
        ELSE Emit([i \in 1..Len(sections) |->
                ValidationResult("documentation", SectionCheckName(sections[i]),
                                 Contains(claude_content.text,
                                          <<"#", "#", " ">> \o sections[i]),
                                 "warning")])

RootMdFiles(cfg, proj) ==
    SelectSeqOf(proj.root_md,
                Range(proj.root_md) \ cfg.documentation.allowed_root_files)

validate_documentation(cfg, proj) ==
    IF ~cfg.documentation.enabled THEN Skip
    ELSE
        LET claude_md_exists == FileExists(proj, "CLAUDE.md")
        IN  Then(Emit(<<ValidationResult("documentation", <<"claude_md_exists">>,
                                         claude_md_exists, "critical")>>),
            Then(IF claude_md_exists THEN ClaudeSectionOutcomes(cfg, proj) ELSE Skip,
                 Emit(<<ValidationResult("documentation", <<"wip_directory_exists">>,
                            FileExists(proj, cfg.documentation.wip_directory), "info"),
                        ValidationResult("documentation", <<"no_forbidden_root_md">>,
                            Len(RootMdFiles(cfg, proj)) = 0, "critical")>>)))

\* ========== Testing Validation ==========
VitestOutcomes(cfg, proj) ==
    LET vitest_config == cfg.testing.vitest
        paths == <<vitest_config.config_file, "apps/web/vitest.config.ts",
                   "apps/web/vitest.config.js">>
        found == FirstExisting(proj, paths)
        vitest_exists == found # 0
        package_json == ReadFile(proj, "package.json")
        scripts == vitest_config.required_scripts
    IN  Emit(<<ValidationResult("testing", <<"vitest_config_exists">>,
                                vitest_exists, "critical")>>
             \o (IF vitest_exists
                 THEN <<ValidationResult("testing", <<"vitest_coverage_configured">>,
                            CheckFileContains(proj, paths[found], <<"thresholds">>),
                            "warning")>>
                 ELSE <<>>)
             \o (IF Truthy(package_json)
                 THEN [i \in 1..Len(scripts) |->
                        ValidationResult("testing",
                            <<"test_script_">> \o Replace(scripts[i], ":", "_"),
                            Contains(package_json.text, scripts[i]), "warning")]
                 ELSE <<>>))

PlaywrightOutcomesMutIgnoresNext(cfg, proj) ==
    LET playwright_config == cfg.testing.playwright
    IN  IF Get(playwright_config, "required_for_web", FALSE)
        THEN Emit(<<ValidationResult("testing", <<"playwright_config_exists">>,
                        FileExists(proj, playwright_config.config_file), "info")>>)
        ELSE Skip

PlaywrightOutcomes(cfg, proj) ==
    LET playwright_config == cfg.testing.playwright
    IN  IF /\ Get(playwright_config, "required_for_web", FALSE)
           /\ (FileExists(proj, "next.config.js") \/ FileExists(proj, "next.config.mjs"))
        THEN Emit(<<ValidationResult("testing", <<"playwright_config_exists">>,
                        FileExists(proj, playwright_config.config_file), "info")>>)
        ELSE Skip

validate_testing(cfg, proj) ==
    IF ~cfg.testing.enabled THEN Skip
    ELSE Then(IF cfg.testing.vitest.required THEN VitestOutcomes(cfg, proj) ELSE Skip,
              PlaywrightOutcomes(cfg, proj))

\* ========== Quality Gates Validation ==========
EslintOutcomes(cfg, proj) ==
    LET paths == <<cfg.quality_gates.eslint.config_file, ".eslintrc.json",
                   ".eslintrc.js", "eslint.config.js", "apps/web/eslint.config.mjs",
                   "apps/web/.eslintrc.json">>
    IN  Emit(<<ValidationResult("quality_gates", <<"eslint_config_exists">>,
                                FirstExisting(proj, paths) # 0, "critical")>>)

TypescriptOutcomesMutAlwaysStrict(cfg, proj) ==
    LET ts_config == cfg.quality_gates.typescript
        ts_exists == FileExists(proj, ts_config.config_file)
    IN  Emit(<<ValidationResult("quality_gates", <<"typescript_config_exists">>,
                                ts_exists, "critical"),
               ValidationResult("quality_gates", <<"typescript_strict_mode">>,
                            CheckFileContains(proj, ts_config.config_file,
                                              <<"\"strict\": true">>),
                            "warning")>>)

TypescriptOutcomes(cfg, proj) ==
    LET ts_config == cfg.quality_gates.typescript
        ts_exists == FileExists(proj, ts_config.config_file)
    IN  Emit(<<ValidationResult("quality_gates", <<"typescript_config_exists">>,
                                ts_exists, "critical")>>
             \o (IF ts_exists
                 THEN <<ValidationResult("quality_gates", <<"typescript_strict_mode">>,
                            CheckFileContains(proj, ts_config.config_file,
                                              <<"\"strict\": true">>),
                            "warning")>>
                 ELSE <<>>))

PrettierOutcomes(cfg, proj) ==
    Emit(<<ValidationResult("quality_gates", <<"prettier_config_exists">>,
                FileExists(proj, cfg.quality_gates.prettier.config_file), "warning")>>)

QualityScriptOutcomes(cfg, proj) ==
    LET package_json == ReadFile(proj, "package.json")
    IN  IF Truthy(package_json)
        THEN Emit(<<ValidationResult("quality_gates", <<"quality_script_exists">>,
                        Contains(package_json.text,
                                 cfg.quality_gates.quality_script.name),
                        "warning")>>)
        ELSE Skip

validate_quality_gates(cfg, proj) ==
    IF ~cfg.quality_gates.enabled THEN Skip
    ELSE
        Then(IF cfg.quality_gates.eslint.required THEN EslintOutcomes(cfg, proj) ELSE Skip,
        Then(IF cfg.quality_gates.typescript.required
             THEN TypescriptOutcomes(cfg, proj) ELSE Skip,
        Then(IF cfg.quality_gates.prettier.required
             THEN PrettierOutcomes(cfg, proj) ELSE Skip,
             IF cfg.quality_gates.quality_script.required
             THEN QualityScriptOutcomes(cfg, proj) ELSE Skip)))

\* ========== Git Validation ==========
GitignoreCheckName(entry) ==
    <<"gitignore_has_">> \o Replace(Replace(entry, "/", "_"), ".", "_")

GitignoreEntryOutcomes(cfg, proj) ==
    LET gitignore_content == ReadFile(proj, ".gitignore")
        entries == cfg.git.gitignore.must_include
    IN  IF entries = <<>> THEN Skip
        ELSE IF gitignore_content.none THEN Raise   \* "in" on None: TypeError
        ELSE Emit([i \in 1..Len(entries) |->
                ValidationResult("git", GitignoreCheckName(entries[i]),
                    \/ Contains(gitignore_content.text, entries[i])
                    \/ Contains(gitignore_content.text, RStrip(entries[i], "/")),
                    "info")])

validate_gitMutReadsUnguarded(cfg, proj) ==
    IF ~cfg.git.enabled THEN Skip
    ELSE Then(Emit(<<ValidationResult("git", <<"gitignore_exists">>,
                                      FileExists(proj, ".gitignore"), "critical")>>),
              GitignoreEntryOutcomes(cfg, proj))

validate_gitMutIgnoresEnabled(cfg, proj) ==
    LET gitignore_exists == FileExists(proj, ".gitignore")
    IN  Then(Emit(<<ValidationResult("git", <<"gitignore_exists">>,
                                     gitignore_exists, "critical")>>),
             IF gitignore_exists THEN GitignoreEntryOutcomes(cfg, proj) ELSE Skip)

validate_git(cfg, proj) ==
    IF ~cfg.git.enabled THEN Skip
    ELSE
        LET gitignore_exists == FileExists(proj, ".gitignore")
        IN  Then(Emit(<<ValidationResult("git", <<"gitignore_exists">>,
                                         gitignore_exists, "critical")>>),
                 IF gitignore_exists THEN GitignoreEntryOutcomes(cfg, proj) ELSE Skip)

\* ========== Security Validation ==========
dangerous_patterns == <<<<"sk_live_">>, <<"pk_live_">>, <<"AKIA">>>>

SecuritySourceDirs == <<"app", "src", "lib", "pages", "components">>

\* dir_path.rglob(pattern) for each existing source directory, in order.
\* Path.rglob knows no brace alternatives: '*.{ts,tsx,js,jsx}' matches only
\* names that end in the literal text ".{ts,tsx,js,jsx}" (field brace_name).
RECURSIVE FilesUnder(_, _, _)
FilesUnder(proj, dirs, only_brace) ==
    IF dirs = <<>> THEN <<>>
    ELSE (IF FileExists(proj, Head(dirs))
          THEN SelectSeqOf(proj.sources,
                           {f \in Range(proj.sources) :
                               f.dir = Head(dirs) /\ (only_brace => f.brace_name)})
          ELSE <<>>)
         \o FilesUnder(proj, Tail(dirs), only_brace)

HasSecret(content) ==
    \E i \in 1..Len(dangerous_patterns) : Contains(content, dangerous_patterns[i])

RECURSIVE ScanSecretsMutStopsAtClean(_)
ScanSecretsMutStopsAtClean(files) ==
    IF files = <<>> THEN Skip
    ELSE IF ~Head(files).readable THEN Raise
    ELSE IF HasSecret(Head(files).content)
         THEN Then(Emit(<<ValidationResult("security", <<"no_hardcoded_secrets">>,
                                           FALSE, "critical")>>),
                   ScanSecretsMutStopsAtClean(Tail(files)))
         ELSE Skip

RECURSIVE ScanSecretsMutNoBreak(_)
ScanSecretsMutNoBreak(files) ==
    IF files = <<>> THEN Skip
    ELSE IF ~Head(files).readable THEN Raise
    ELSE Then(Emit([i \in 1..Cardinality({k \in 1..Len(dangerous_patterns) :
                                Contains(Head(files).content, dangerous_patterns[k])})
                    |-> ValidationResult("security", <<"no_hardcoded_secrets">>,
                                         FALSE, "critical")]),
              ScanSecretsMutNoBreak(Tail(files)))

\* the scan loop: read_text raises on a file that cannot be read; the break
\* leaves the pattern loop only, so every file with a match adds an outcome
RECURSIVE ScanSecrets(_)
ScanSecrets(files) ==
    IF files = <<>> THEN Skip
    ELSE IF ~Head(files).readable THEN Raise
    ELSE Then(IF HasSecret(Head(files).content)
              THEN Emit(<<ValidationResult("security", <<"no_hardcoded_secrets">>,
                                           FALSE, "critical")>>)
              ELSE Skip,
              ScanSecrets(Tail(files)))

validate_securityMutRecordsPass(cfg, proj) ==
    IF ~cfg.security.enabled THEN Skip
    ELSE LET scan == ScanSecrets(FilesUnder(proj, SecuritySourceDirs, TRUE))
         IN  Then(Emit(<<ValidationResult("security", <<"env_example_exists">>,
                            FileExists(proj, cfg.security.env_files.example_file_name),
                            "warning")>>),
                  IF ~scan.crash /\ scan.out = <<>>
                  THEN Emit(<<ValidationResult("security", <<"no_hardcoded_secrets">>,
                                               TRUE, "critical")>>)
                  ELSE scan)

validate_security(cfg, proj) ==
    IF ~cfg.security.enabled THEN Skip
    ELSE Then(Emit(<<ValidationResult("security", <<"env_example_exists">>,
                        FileExists(proj, cfg.security.env_files.example_file_name),
                        "warning")>>),
              ScanSecrets(FilesUnder(proj, SecuritySourceDirs, TRUE)))

\* ========== Naming Conventions Validation ==========
NamingSourceDirs == <<"app", "src", "lib", "pages", "components", "packages">>

HasForbiddenSuffix(cfg, f) ==
    LET suffixes == cfg.naming_conventions.files.forbidden_suffixes
    IN  f.is_file /\ \E i \in 1..Len(suffixes) : EndsWith(f.stem, suffixes[i])

validate_naming_conventions(cfg, proj) ==
    IF ~cfg.naming_conventions.enabled THEN Skip
    ELSE
        LET scanned == FilesUnder(proj, NamingSourceDirs, FALSE)
            files_with_suffixes ==
                SelectSeqOf(scanned, {f \in Range(scanned) : HasForbiddenSuffix(cfg, f)})
        IN  Emit(<<ValidationResult("naming_conventions", <<"no_version_suffixes">>,
                                    Len(files_with_suffixes) = 0, "critical")>>)

\* ========== Migrations Validation ==========
MigrationsDir(proj) ==
    IF FileExists(proj, "supabase/migrations")
    THEN "supabase/migrations"
    ELSE "apps/web/supabase/migrations"

NonIdempotent(content) ==
    \/ Contains(content, <<"CREATE POLICY">>) /\ ~Contains(content, <<"DO $$">>)
    \/ Contains(content, <<"CREATE TRIGGER">>)
         /\ ~Contains(content, <<"DROP TRIGGER IF EXISTS">>)
    \/ Contains(content, <<"ADD CONSTRAINT">>) /\ ~Contains(content, <<"DO $$">>)

\* the loop over migrations_path.glob('*.sql'): the number of flagged files,
\* or an uncaught exception of read_text
RECURSIVE ScanMigrations(_)
ScanMigrations(files) ==
    IF files = <<>> THEN [flagged |-> 0, crash |-> FALSE]
    ELSE IF ~Head(files).readable THEN [flagged |-> 0, crash |-> TRUE]
    ELSE LET rest == ScanMigrations(Tail(files))
         IN  [flagged |-> rest.flagged
                            + (IF NonIdempotent(Head(files).content) THEN 1 ELSE 0),
              crash |-> rest.crash]

validate_migrationsMutPerFile(cfg, proj) ==
    IF ~Get(cfg.migrations, "enabled_for_supabase", FALSE) THEN Skip
    ELSE IF ~FileExists(proj, MigrationsDir(proj)) THEN Skip
    ELSE
        LET files == SelectSeqOf(proj.migrations,
                         {f \in Range(proj.migrations) :
                             f.dir = MigrationsDir(proj) /\ f.sql})
            scan == ScanMigrations(files)
        IN  IF scan.crash THEN Raise
            ELSE IF scan.flagged = 0
                 THEN Emit(<<ValidationResult("migrations", <<"migrations_idempotent">>,
                                              TRUE, "critical")>>)
                 ELSE Emit([i \in 1..scan.flagged |->
                               ValidationResult("migrations", <<"migrations_idempotent">>,
                                                FALSE, "critical")])

validate_migrations(cfg, proj) ==
    IF ~Get(cfg.migrations, "enabled_for_supabase", FALSE) THEN Skip
    ELSE IF ~FileExists(proj, MigrationsDir(proj)) THEN Skip
    ELSE
        LET files == SelectSeqOf(proj.migrations,
                         {f \in Range(proj.migrations) :
                             f.dir = MigrationsDir(proj) /\ f.sql})
            scan == ScanMigrations(files)
        IN  IF scan.crash THEN Raise
            ELSE Emit(<<ValidationResult("migrations", <<"migrations_idempotent">>,
                                         scan.flagged = 0, "critical")>>)

----------------------------------------------------------------------------
(* validate_all: the eight evaluators in order, then scores and grade.     *)

EvaluatorOrder ==
    <<"hooks", "documentation", "testing", "quality_gates", "git", "security",
      "naming_conventions", "migrations">>

\* each evaluator begins with self.config['<its section>']: a KeyError when
\* the configuration has no such section
Evaluate(name, cfg, proj) ==
    IF name \notin DOMAIN cfg THEN Raise
    ELSE
    CASE name = "hooks" -> validate_hooks(cfg, proj)
      [] name = "documentation" -> validate_documentation(cfg, proj)
      [] name = "testing" -> validate_testing(cfg, proj)
      [] name = "quality_gates" -> validate_quality_gates(cfg, proj)
      [] name = "git" -> validate_git(cfg, proj)
      [] name = "security" -> validate_security(cfg, proj)
      [] name = "naming_conventions" -> validate_naming_conventions(cfg, proj)
      [] name = "migrations" -> validate_migrations(cfg, proj)

\* the calls self.validate_hooks() ... self.validate_migrations(): every
\* outcome goes through _add_result; an exception ends the run where it is
RECURSIVE RunEvaluators(_, _, _, _)
RunEvaluators(cfg, proj, res, names) ==
    IF names = <<>> THEN [results |-> res, crash |-> FALSE]
    ELSE LET e == Evaluate(Head(names), cfg, proj)
             res1 == AddResults(res, cfg, e.out)
         IN  IF e.crash \/ Len(res1) < 0 THEN [results |-> res1, crash |-> TRUE]
             ELSE RunEvaluators(cfg, proj, res1, Tail(names))

TotalChecks(cat) == cat.checks_passed + cat.checks_failed + cat.checks_warned

Half == [num |-> 1, den |-> 2]
Hundred == FromInt(100)

CategoryScoreMutFullWarned(cat) ==
    RatMul(RatDiv(FromInt(cat.checks_passed + cat.checks_warned),
                  FromInt(TotalChecks(cat))),
           Hundred)

CategoryScoreMutWarnedDoubled(cat) ==
    RatMul(RatDiv(RatAdd(FromInt(cat.checks_passed),
                         RatMul(FromInt(cat.checks_warned), FromInt(2))),
                  FromInt(TotalChecks(cat))),
           Hundred)

CategoryScoreMutFailedHalf(cat) ==
    RatMul(RatDiv(RatAdd(FromInt(cat.checks_passed),
                         RatMul(FromInt(cat.checks_failed), Half)),
                  FromInt(TotalChecks(cat))),
           Hundred)

\* ((passed_score + warned_score) / total_checks) * 100
CategoryScore(cat) ==
    RatMul(RatDiv(RatAdd(FromInt(cat.checks_passed),
                         RatMul(FromInt(cat.checks_warned), Half)),
                  FromInt(TotalChecks(cat))),
           Hundred)

\* the loop over self.results.items()
RECURSIVE ScoreLoop(_, _, _, _)
ScoreLoop(res, i, total_score, weight_sum) ==
    IF i > Len(res)
    THEN [results |-> res, total_score |-> total_score, total_weight |-> weight_sum]
    ELSE IF TotalChecks(res[i]) > 0
         THEN LET sc == CategoryScore(res[i])
                  weighted_score == RatMul(sc, FromInt(res[i].weight))
                  sum == RatAdd(total_score, weighted_score)
              IN  IF sum.den > 0
                  THEN ScoreLoop([res EXCEPT ![i].score = sc], i + 1, sum,
                                 weight_sum + res[i].weight)
                  ELSE [results |-> res, total_score |-> sum, total_weight |-> weight_sum]
         ELSE ScoreLoop(res, i + 1, total_score, weight_sum)

OverallScoreMutPlainMean(total_score, weight_sum) ==
    IF weight_sum > 0 THEN RatDiv(total_score, Hundred) ELSE Zero

\* total_score / total_weight if total_weight > 0 else 0
OverallScore(total_score, weight_sum) ==
    IF weight_sum > 0 THEN RatDiv(total_score, FromInt(weight_sum)) ELSE Zero

DefaultGrade == "F"

GradeFromMutHighest(grading, score, i) ==
    LET q == {k \in i..Len(grading) : RatGE(score, FromInt(grading[k].min_percent))}
    IN  IF q = {} THEN DefaultGrade
        ELSE grading[CHOOSE k \in q :
                        \A j \in q : grading[k].min_percent >= grading[j].min_percent].name

RECURSIVE GradeFromMutStrict(_, _, _)
GradeFromMutStrict(grading, score, i) ==
    IF i > Len(grading) THEN DefaultGrade
    ELSE IF RatLT(FromInt(grading[i].min_percent), score) THEN grading[i].name
    ELSE GradeFromMutStrict(grading, score, i + 1)

\* the loop over self.config['compliance_grading'].items(), from band i on
RECURSIVE GradeFrom(_, _, _)
GradeFrom(grading, score, i) ==
    IF i > Len(grading) THEN DefaultGrade
    ELSE IF RatGE(score, FromInt(grading[i].min_percent)) THEN grading[i].name
    ELSE GradeFrom(grading, score, i + 1)

DetermineGradeMutLastQualifying(grading, score) ==
    LET q == {i \in 1..Len(grading) : RatGE(score, FromInt(grading[i].min_percent))}
    IN  IF q = {} THEN DefaultGrade
        ELSE grading[CHOOSE i \in q : \A j \in q : j <= i].name

DetermineGrade(grading, score) == GradeFrom(grading, score, 1)

\* the same scoring in binary64, as the interpreter evaluates lines 564-587
CategoryScore64(cat) ==
    Float64MulInt(Float64DivInt(Float64OfHalves(2 * cat.checks_passed
                                                + cat.checks_warned),
                                TotalChecks(cat)),
                  100)

RECURSIVE ScoreLoop64(_, _, _, _)
ScoreLoop64(res, i, total_score, weight_sum) ==
    IF i > Len(res)
    THEN [total_score |-> total_score, total_weight |-> weight_sum]
    ELSE IF TotalChecks(res[i]) > 0
         THEN LET weighted_score == Float64MulInt(CategoryScore64(res[i]),
                                                  res[i].weight)
              IN  ScoreLoop64(res, i + 1, Float64Add(total_score, weighted_score),
                              weight_sum + res[i].weight)
         ELSE ScoreLoop64(res, i + 1, total_score, weight_sum)

OverallScore64(res) ==
    LET scored == ScoreLoop64(res, 1, Float64Zero, 0)
    IN  IF scored.total_weight > 0
        THEN Float64DivInt(scored.total_score, scored.total_weight)
        ELSE Float64Zero

RECURSIVE GradeFrom64(_, _, _)
GradeFrom64(grading, score, i) ==
    IF i > Len(grading) THEN DefaultGrade
    ELSE IF Float64GE(score, Float64OfInt(grading[i].min_percent))
         THEN grading[i].name
    ELSE GradeFrom64(grading, score, i + 1)

DetermineGrade64(grading, score) == GradeFrom64(grading, score, 1)

RECURSIVE ConfiguredWeights(_, _)
ConfiguredWeights(cfg, names) ==
    IF names = <<>> THEN 0
    ELSE WeightOf(cfg, Head(names)) + ConfiguredWeights(cfg, Tail(names))

validate_allMutAllWeights(cfg, proj, res) ==
    LET run == RunEvaluators(cfg, proj, res, EvaluatorOrder)
        scored == ScoreLoop(run.results, 1, Zero, 0)
        weights == ConfiguredWeights(cfg, EvaluatorOrder)
        overall == OverallScore(scored.total_score, weights)
    IN  IF run.crash
        THEN [crash |-> TRUE, results |-> run.results, overall_score |-> Zero,
              total_weight |-> 0, grade |-> ""]
        ELSE [crash |-> FALSE, results |-> scored.results, overall_score |-> overall,
              total_weight |-> weights,
              grade |-> DetermineGrade(cfg.compliance_grading, overall)]

validate_all(cfg, proj, res) ==
    LET run == RunEvaluators(cfg, proj, res, EvaluatorOrder)
        scored == ScoreLoop(run.results, 1, Zero, 0)
        overall == OverallScore(scored.total_score, scored.total_weight)
    IN  IF run.crash
        THEN [crash |-> TRUE, results |-> run.results, overall_score |-> Zero,
              total_weight |-> 0, grade |-> ""]
        ELSE [crash |-> FALSE, results |-> scored.results, overall_score |-> overall,
              total_weight |-> scored.total_weight,
              grade |-> DetermineGrade(cfg.compliance_grading, overall)]

GradeNames(cfg) ==
    {cfg.compliance_grading[i].name : i \in 1..Len(cfg.compliance_grading)}

FullComplianceMin == 95
WarningsMin == 70

\* main's exit code from the score
ExitStatus(score) ==
    IF RatGE(score, FromInt(FullComplianceMin)) THEN 0
    ELSE IF RatGE(score, FromInt(WarningsMin)) THEN 1
    ELSE 2

----------------------------------------------------------------------------
(* main(): validate_all, then the report, then sys.exit.                   *)

NoReport == [exported |-> FALSE, overall_score |-> Zero, grade |-> "", categories |-> <<>>]

ValidateAll ==
    /\ pc = "start"
    /\ LET r == validate_all(config, project, results)
       IN  /\ results' = r.results
           /\ overall_score' = r.overall_score
           /\ total_weight' = r.total_weight
           /\ grade' = r.grade
           /\ pc' = IF r.crash THEN "crashed" ELSE "validated"
    /\ UNCHANGED <<config, project, report, exit_code>>

\* --report-format json
ExportJson ==
    /\ pc = "validated"
    /\ report' = [exported |-> TRUE, overall_score |-> overall_score, grade |-> grade,
                  categories |-> results]
    /\ pc' = "reported"
    /\ UNCHANGED <<config, project, results, overall_score, total_weight, grade,
                   exit_code>>

\* --report-format text: self.config['compliance_grading'][grade] is a
\* KeyError when the grade is no key of the configured bands
PrintResults ==
    /\ pc = "validated"
    /\ pc' = IF grade \in GradeNames(config) THEN "reported" ELSE "crashed"
    /\ UNCHANGED <<config, project, results, overall_score, total_weight, grade,
                   report, exit_code>>

Exit ==
    /\ pc = "reported"
    /\ exit_code' = ExitStatus(overall_score)
    /\ pc' = "exited"
    /\ UNCHANGED <<config, project, results, overall_score, total_weight, grade,
                   report>>

Traceback ==
    /\ pc = "crashed"
    /\ exit_code' = 1   \* an uncaught exception ends the process with status 1
    /\ pc' = "exited"
    /\ UNCHANGED <<config, project, results, overall_score, total_weight, grade,
                   report>>

----------------------------------------------------------------------------
(* Inputs: rules-config.json documents and project snapshots.  A scenario  *)
(* names, facet by facet, which variant of the configuration or of the     *)
(* project is taken; "ok" is the compliant project under the full          *)
(* configuration.                                                          *)

MaxVaried == 2

FacetNames ==
    {"hooks", "documentation", "testing", "quality_gates", "git", "security",
     "sources", "migrations", "package", "weights", "grading", "disable", "only"}

Variants ==
    [hooks |-> {"no_lefthook", "alt_lefthook", "unreadable"},
     documentation |-> {"no_claude", "missing_section", "unreadable", "colliding_sections"},
     testing |-> {"no_vitest", "monorepo_vitest", "not_required"},
     quality_gates |-> {"none", "loose", "not_required"},
     git |-> {"no_gitignore", "partial", "unreadable"},
     security |-> {"no_env"},
     sources |-> {"none", "ts_secret", "one_secret", "two_secrets", "suffix",
                  "unreadable"},
     migrations |-> {"off", "no_dir", "monorepo_bad", "unreadable"},
     package |-> {"absent", "empty", "partial"},
     weights |-> {"hooks70_security30", "sparse"},
     grading |-> {"abc", "ascending"},
     disable |-> Categories,
     only |-> Categories]

Baseline == [f \in FacetNames |-> "ok"]

\* every way to give each facet of F one of its non-baseline variants
RECURSIVE Picks(_)
Picks(F) ==
    IF F = {} THEN {Baseline}
    ELSE LET f == CHOOSE x \in F : TRUE
         IN  {[p EXCEPT ![f] = v] : p \in Picks(F \ {f}), v \in Variants[f]}

Scenarios ==
    UNION {Picks(F) : F \in {G \in SUBSET FacetNames : Cardinality(G) <= MaxVaried}}

EnabledIn(sc, category) ==
    /\ sc["disable"] # category
    /\ sc["only"] \in {"ok", category}

\* ---- rules-config.json ----
Band(name, min_percent) == [name |-> name, min_percent |-> min_percent]

GradingOf(sc) ==
    CASE sc["grading"] = "abc" -> <<Band("A", 95), Band("B", 80), Band("C", 60)>>
      [] sc["grading"] = "ascending" ->
            <<Band("F", 0), Band("C", 60), Band("B", 80), Band("A", 95)>>
      [] OTHER -> <<Band("A", 95), Band("B", 80), Band("C", 70), Band("D", 60),
                    Band("F", 0)>>

Weight(w) == [k \in {"weight"} |-> w]

WeightsOf(sc) ==
    CASE sc["weights"] = "hooks70_security30" ->
            [c \in Categories |->
                Weight(IF c = "hooks" THEN 70 ELSE IF c = "security" THEN 30 ELSE 0)]
      [] sc["weights"] = "sparse" ->
            [c \in {"hooks", "documentation", "git"} |->
                IF c = "documentation" THEN <<>> ELSE Weight(0)]
      [] OTHER ->
            [c \in Categories |->
                Weight(IF c \in {"hooks", "documentation", "testing", "quality_gates"}
                       THEN 15
                       ELSE IF c \in {"security", "git"} THEN 10 ELSE 5)]

QuickStart == <<"Quick", " ", "Start">>
TestScript == <<"test">>
CoverageScript == <<"test", ":", "coverage">>
NodeModules == <<"node", "_", "modules", "/">>
DotEnv == <<".", "env">>

ConfigOf(sc) ==
    [validation_categories |-> WeightsOf(sc),
     compliance_grading |-> GradingOf(sc),
     hooks |-> [enabled |-> EnabledIn(sc, "hooks"),
                pre_commit_commands |-> <<<<"lint">>, <<"typecheck">>>>,
                pre_push_commands |-> <<<<"test">>>>],
     documentation |->
        [enabled |-> EnabledIn(sc, "documentation"),
         required_claude_sections |->
            IF sc["documentation"] = "colliding_sections"
            THEN <<QuickStart, <<"quick", " ", "start">>>>
            ELSE <<QuickStart, <<"Testing">>>>,
         wip_directory |-> "docs/wip",
         guides_directory |-> "docs/guides",
         architecture_directory |-> "docs/architecture",
         allowed_root_files |-> {"README.md", "CLAUDE.md"}],
     testing |->
        [enabled |-> EnabledIn(sc, "testing"),
         vitest |-> [required |-> sc["testing"] # "not_required",
                     config_file |-> "vitest.config.ts",
                     required_scripts |-> <<TestScript, CoverageScript>>],
         playwright |->
            IF sc["testing"] = "not_required"
            THEN [k \in {"config_file"} |-> "playwright.config.ts"]
            ELSE [k \in {"config_file", "required_for_web"} |->
                    IF k = "config_file" THEN "playwright.config.ts" ELSE TRUE]],
     quality_gates |->
        [enabled |-> EnabledIn(sc, "quality_gates"),
         eslint |-> [required |-> sc["quality_gates"] # "not_required",
                     config_file |-> "eslint.config.mjs"],
         typescript |-> [required |-> sc["quality_gates"] # "not_required",
                         config_file |-> "tsconfig.json"],
         prettier |-> [required |-> sc["quality_gates"] # "not_required",
                       config_file |-> ".prettierrc"],
         quality_script |-> [required |-> TRUE, name |-> <<"quality">>]],
     git |-> [enabled |-> EnabledIn(sc, "git"),
              gitignore |-> [must_include |-> <<NodeModules, DotEnv>>]],
     security |-> [enabled |-> EnabledIn(sc, "security"),
                   env_files |-> [example_file_name |-> ".env.local.example"]],
     naming_conventions |->
        [enabled |-> EnabledIn(sc, "naming_conventions"),
         files |-> [forbidden_suffixes |-> <<<<"_v2">>, <<"_new">>>>]],
     migrations |->
        IF sc["migrations"] = "off"
        THEN <<>>
        ELSE [k \in {"enabled_for_supabase"} |-> EnabledIn(sc, "migrations")]]

\* ---- project snapshots ----
SourceFile(dir, brace_name, stem, readable, content) ==
    [dir |-> dir, brace_name |-> brace_name, is_file |-> TRUE, stem |-> stem,
     readable |-> readable, content |-> content]

MigrationFile(dir, readable, content) ==
    [dir |-> dir, sql |-> TRUE, readable |-> readable, content |-> content]

CleanCode == <<"export", " ", "const">>
SecretCode ==
    <<"const", " ", "sk_live_", "abc", "\n", "const", " ", "sk_live_", "def", " ", "AKIA">>

SourcesOf(sc) ==
    CASE sc["sources"] = "none" -> <<>>
      [] sc["sources"] = "ts_secret" ->
            <<SourceFile("src", FALSE, <<"a">>, TRUE, SecretCode)>>
      [] sc["sources"] = "one_secret" ->
            <<SourceFile("src", TRUE, <<"a">>, TRUE, CleanCode),
              SourceFile("src", TRUE, <<"b">>, TRUE, SecretCode)>>
      [] sc["sources"] = "two_secrets" ->
            <<SourceFile("src", TRUE, <<"b">>, TRUE, SecretCode),
              SourceFile("app", TRUE, <<"c">>, TRUE, <<"pk_live_">>),
              SourceFile("app", FALSE, <<"d">>, TRUE, CleanCode)>>
      [] sc["sources"] = "suffix" ->
            <<SourceFile("packages", FALSE, <<"util", "_v2">>, TRUE, CleanCode),
              SourceFile("src", TRUE, <<"a">>, TRUE, CleanCode)>>
      [] sc["sources"] = "unreadable" ->
            <<SourceFile("src", TRUE, <<"a">>, FALSE, <<>>),
              SourceFile("src", TRUE, <<"b">>, TRUE, SecretCode)>>
      [] OTHER -> <<SourceFile("src", FALSE, <<"a">>, TRUE, CleanCode),
                    SourceFile("src", TRUE, <<"b">>, TRUE, CleanCode)>>

MigrationsOf(sc) ==
    CASE sc["migrations"] = "no_dir" -> <<>>
      [] sc["migrations"] = "monorepo_bad" ->
            <<MigrationFile("apps/web/supabase/migrations", TRUE,
                            <<"CREATE POLICY", " ", "DO $$">>),
              MigrationFile("apps/web/supabase/migrations", TRUE,
                            <<"CREATE TRIGGER">>),
              MigrationFile("apps/web/supabase/migrations", TRUE,
                            <<"ALTER TABLE", " ", "ADD CONSTRAINT">>)>>
      [] sc["migrations"] = "unreadable" ->
            <<MigrationFile("supabase/migrations", FALSE, <<>>)>>
      [] OTHER -> <<MigrationFile("supabase/migrations", TRUE,
                                  <<"DROP TRIGGER IF EXISTS", " ", "CREATE TRIGGER">>)>>

RootMdOf(sc) ==
    CASE sc["documentation"] = "no_claude" -> <<"README.md">>
      [] sc["documentation"] = "missing_section" -> <<"NOTES.md", "CLAUDE.md", "README.md">>
      [] OTHER -> <<"README.md", "CLAUDE.md">>

ExistsOf(sc) ==
    (CASE sc["hooks"] = "no_lefthook" -> {".claude/settings.json"}
       [] sc["hooks"] = "alt_lefthook" -> {"lefthook.yml"}
       [] OTHER -> {".lefthook.yml", "lefthook.yml", ".claude/settings.json"})
    \cup (CASE sc["documentation"] = "no_claude" -> {}
            [] sc["documentation"] = "missing_section" -> {"CLAUDE.md"}
            [] OTHER -> {"CLAUDE.md", "docs/wip"})
    \cup (CASE sc["testing"] = "no_vitest" -> {"next.config.js"}
            [] sc["testing"] = "monorepo_vitest" -> {"apps/web/vitest.config.ts"}
            [] OTHER -> {"vitest.config.ts", "next.config.mjs", "playwright.config.ts"})
    \cup (CASE sc["quality_gates"] = "none" -> {}
            [] sc["quality_gates"] = "loose" -> {".eslintrc.json", "tsconfig.json"}
            [] OTHER -> {"eslint.config.mjs", "tsconfig.json", ".prettierrc"})
    \cup (IF sc["git"] = "no_gitignore" THEN {} ELSE {".gitignore"})
    \cup (IF sc["security"] = "no_env" THEN {} ELSE {".env.local.example"})
    \cup (IF sc["package"] = "absent" THEN {} ELSE {"package.json"})
    \cup {f.dir : f \in Range(SourcesOf(sc))}
    \cup {f.dir : f \in Range(MigrationsOf(sc))}

UnreadableOf(sc) ==
    (IF sc["hooks"] = "unreadable" THEN {".lefthook.yml"} ELSE {})
    \cup (IF sc["documentation"] = "unreadable" THEN {"CLAUDE.md"} ELSE {})
    \cup (IF sc["git"] = "unreadable" THEN {".gitignore"} ELSE {})

TextOf(sc) ==
    [path \in {".lefthook.yml", "lefthook.yml", "CLAUDE.md", "vitest.config.ts",
               "apps/web/vitest.config.ts", "tsconfig.json", ".gitignore",
               "package.json"} |->
        CASE path = ".lefthook.yml" ->
                <<"lint", ":", "\n", "typecheck", ":", "\n", "test", ":">>
          [] path = "lefthook.yml" -> <<"lint", ":">>
          [] path = "CLAUDE.md" ->
                IF sc["documentation"] = "missing_section"
                THEN <<"#", "#", " ">> \o QuickStart
                ELSE <<"#", "#", " ">> \o QuickStart \o <<"\n", "#", "#", " ", "Testing">>
          [] path = "vitest.config.ts" -> <<"coverage", " ", "thresholds">>
          [] path = "apps/web/vitest.config.ts" -> <<"coverage">>
          [] path = "tsconfig.json" ->
                IF sc["quality_gates"] = "loose"
                THEN <<"\"strict\": false">> ELSE <<"\"strict\": true">>
          [] path = ".gitignore" ->
                IF sc["git"] = "partial"
                THEN <<"node", "_", "modules">>
                ELSE IF sc["git"] = "bare"
                THEN <<"dist", "/">>
                ELSE NodeModules \o <<"\n">> \o DotEnv
          [] path = "package.json" ->
                CASE sc["package"] = "empty" -> <<>>
                  [] sc["package"] = "partial" -> TestScript
                  [] OTHER -> CoverageScript \o <<"\n", "quality">>]

ProjectOf(sc) ==
    [exists |-> ExistsOf(sc), unreadable |-> UnreadableOf(sc), text |-> TextOf(sc),
     root_md |-> RootMdOf(sc), sources |-> SourcesOf(sc),
     migrations |-> MigrationsOf(sc)]

----------------------------------------------------------------------------
(* The program: one validator, constructed and run by main().              *)

Init ==
    /\ \E sc \in Scenarios :
        /\ config = ConfigOf(sc)
        /\ project = ProjectOf(sc)
    /\ results = <<>>
    /\ pc = "start"
    /\ overall_score = Zero
    /\ total_weight = 0
    /\ grade = ""
    /\ report = NoReport
    /\ exit_code = -1

Next == ValidateAll \/ ExportJson \/ PrintResults \/ Exit \/ Traceback

Spec == Init /\ [][Next]_vars

----------------------------------------------------------------------------
(* A caller that keeps the validator and calls validate_all a second time  *)
(* on the unchanged project: the evaluators run again on self.results as   *)
(* the first call left it.                                                 *)

\* a call of validate_all: the first one, or a second one after it returned
ValidateAllAgain ==
    /\ pc \in {"start", "validated"}
    /\ LET r == validate_all(config, project, results)
       IN  /\ results' = r.results
           /\ overall_score' = r.overall_score
           /\ total_weight' = r.total_weight
           /\ grade' = r.grade
           /\ pc' = IF r.crash THEN "crashed"
                    ELSE IF pc = "start" THEN "validated" ELSE "validated_again"
    /\ UNCHANGED <<config, project, report, exit_code>>

NextAgain == ValidateAllAgain \/ ExportJson \/ PrintResults \/ Exit \/ Traceback

SpecAgain == Init /\ [][NextAgain]_vars

----------------------------------------------------------------------------
(* Runs under a rules-config.json that may lack the section of one         *)
(* category: _load_config returns whatever json.load read.                 *)

Without(cfg, key) == [k \in DOMAIN cfg \ {key} |-> cfg[k]]

OneFacetScenarios == UNION {Picks({f}) : f \in FacetNames} \cup {Baseline}

InitMalformed ==
    /\ \E sc \in OneFacetScenarios, missing \in Categories \cup {"none"} :
        /\ config = Without(ConfigOf(sc), missing)
        /\ project = ProjectOf(sc)
    /\ results = <<>>
    /\ pc = "start"
    /\ overall_score = Zero
    /\ total_weight = 0
    /\ grade = ""
    /\ report = NoReport
    /\ exit_code = -1

SpecMalformed == InitMalformed /\ [][Next]_vars

----------------------------------------------------------------------------
(* Runs over projects in which any subset of the files the checks look for *)
(* is absent, under the full bands or under bands without an 'F'.          *)

AbsentVariant ==
    [hooks |-> "no_lefthook", documentation |-> "no_claude", testing |-> "no_vitest",
     quality_gates |-> "none", git |-> "no_gitignore", security |-> "no_env",
     sources |-> "none", migrations |-> "no_dir", package |-> "absent",
     grading |-> "abc"]

AbsentScenarios ==
    {[f \in FacetNames |-> IF f \in A THEN AbsentVariant[f] ELSE "ok"] :
        A \in SUBSET DOMAIN AbsentVariant}

InitAbsent ==
    /\ \E sc \in AbsentScenarios :
        /\ config = ConfigOf(sc)
        /\ project = ProjectOf(sc)
    /\ results = <<>>
    /\ pc = "start"
    /\ overall_score = Zero
    /\ total_weight = 0
    /\ grade = ""
    /\ report = NoReport
    /\ exit_code = -1

SpecAbsent == InitAbsent /\ [][Next]_vars

----------------------------------------------------------------------------
(* Projects that fall short in several categories at once: every subset of *)
(* six departures from the compliant project, so that the weighted sum has *)
(* terms that are no binary fractions.                                     *)

ShortfallVariant ==
    [hooks |-> "no_lefthook", documentation |-> "unreadable", git |-> "bare",
     sources |-> "two_secrets", migrations |-> "monorepo_bad", disable |-> "testing"]

ShortfallScenarios ==
    {[f \in FacetNames |-> IF f \in A THEN ShortfallVariant[f] ELSE "ok"] :
        A \in SUBSET DOMAIN ShortfallVariant}

InitShortfall ==
    /\ \E sc \in ShortfallScenarios :
        /\ config = ConfigOf(sc)
        /\ project = ProjectOf(sc)
    /\ results = <<>>
    /\ pc = "start"
    /\ overall_score = Zero
    /\ total_weight = 0
    /\ grade = ""
    /\ report = NoReport
    /\ exit_code = -1

SpecShortfall == InitShortfall /\ [][Next]_vars

----------------------------------------------------------------------------
(* The aggregator driven directly: every evaluator is switched off in the  *)
(* configuration, a caller hands outcomes to _add_result, then main's      *)
(* steps run as above (validate_all adds nothing and scores what is there).*)

MaxRecorded == 2

AllDisabled(cfg) ==
    [cfg EXCEPT !.hooks.enabled = FALSE, !.documentation.enabled = FALSE,
                !.testing.enabled = FALSE, !.quality_gates.enabled = FALSE,
                !.git.enabled = FALSE, !.security.enabled = FALSE,
                !.naming_conventions.enabled = FALSE, !.migrations = <<>>]

AggregatorScenarios == UNION {Picks(F) : F \in SUBSET {"weights", "grading"}}

\* the outcomes a caller may record; "error" is no severity of the vocabulary
RecordedOutcomes ==
    {ValidationResult(c, <<"check">>, p, s) :
        c \in {"hooks", "security"}, p \in BOOLEAN, s \in Severities \cup {"error"}}

RECURSIVE TotalRecorded(_)
TotalRecorded(res) ==
    IF res = <<>> THEN 0 ELSE Len(Head(res).results) + TotalRecorded(Tail(res))

InitAggregator(scenarios) ==
    /\ \E sc \in scenarios :
        /\ config = AllDisabled(ConfigOf(sc))
        /\ project = ProjectOf(sc)
    /\ pc = "start"
    /\ overall_score = Zero
    /\ total_weight = 0
    /\ grade = ""
    /\ report = NoReport
    /\ exit_code = -1

InitRecord ==
    /\ InitAggregator(AggregatorScenarios)
    /\ results = <<>>

\* one call of self._add_result(result)
Record ==
    /\ pc = "start"
    /\ TotalRecorded(results) < MaxRecorded
    /\ \E r \in RecordedOutcomes : results' = AddResult(results, config, r)
    /\ UNCHANGED <<config, project, pc, overall_score, total_weight, grade, report,
                   exit_code>>

NextRecord == Record \/ ValidateAll \/ ExportJson \/ PrintResults \/ Exit \/ Traceback

SpecRecord == InitRecord /\ [][NextRecord]_vars

----------------------------------------------------------------------------
(* The scoring of validate_all as a function of the tallies: the validator *)
(* starts with the tallies that recording p passing, f failing critical    *)
(* and w failing warning outcomes leaves in "hooks" and in "security".     *)

MaxPassed == 4
MaxFailed == 2
MaxWarned == 2

Counts == [p : 0..MaxPassed, f : 0..MaxFailed, w : 0..MaxWarned]

OutcomesFor(category, n) ==
    [i \in 1..(n.p + n.f + n.w) |->
        ValidationResult(category, <<"check", ToString(i)>>, i <= n.p,
                         IF i <= n.p + n.f THEN "critical" ELSE "warning")]

InitScore ==
    /\ InitAggregator(AggregatorScenarios)
    /\ \E h \in Counts, t \in Counts :
        results = AddResults(<<>>, config,
                             OutcomesFor("hooks", h) \o OutcomesFor("security", t))

SpecScore == InitScore /\ [][Next]_vars

----------------------------------------------------------------------------
(* Properties.                                                             *)

Outcomes(cat) == Range(cat.results)
Returned == pc = "validated"      \* validate_all has just returned
ScoreIs(x, n) == x = FromInt(n)

\* the entry of a category, or a fresh one when it has none yet
TallyOf(res, category) ==
    IF HasCategory(res, category) THEN res[IndexOf(res, category)]
    ELSE CategoryResult(category, 0)

Counters(cat) == <<cat.checks_passed, cat.checks_failed, cat.checks_warned>>

\* what one recorded outcome must add to <<passed, failed, warned>>
Expected(r) ==
    IF r.passed THEN <<1, 0, 0>>
    ELSE IF r.severity = "critical" THEN <<0, 1, 0>> ELSE <<0, 0, 1>>

RecordedIn(category) ==
    /\ HasCategory(results', category)
    /\ Len(TallyOf(results', category).results)
         = Len(TallyOf(results, category).results) + 1

\* C1: one call of _add_result adds 1 to exactly one counter of the outcome's
\* category: checks_passed if it passed, else checks_failed if its severity
\* is 'critical', else checks_warned (so a failing 'info' and a failing
\* 'warning' both count as warned, and a passing outcome counts as passed
\* whatever its severity); no counter of another category moves.
C1_OneCounterPerOutcome ==
    [][(pc = "start" /\ pc' = "start" /\ results' # results) =>
        \E c \in {"hooks", "security"} :
            /\ RecordedIn(c)
            /\ LET new == TallyOf(results', c)
                   old == TallyOf(results, c)
                   r == new.results[Len(new.results)]
               IN  \A k \in 1..3 : Counters(new)[k] = Counters(old)[k] + Expected(r)[k]
            /\ \A d \in {"hooks", "security"} \ {c} :
                   Counters(TallyOf(results', d)) = Counters(TallyOf(results, d))]_vars

C1_Witness ==
    /\ pc = "start"
    /\ \E i \in 1..Len(results) :
        /\ results[i].checks_warned = 1
        /\ results[i].checks_passed = 1
        /\ \E r \in Outcomes(results[i]) : ~r.passed /\ r.severity = "info"
        /\ \E r \in Outcomes(results[i]) : r.passed /\ r.severity = "warning"

\* C2: in every category tally the three counters are non-negative and add
\* up to the number of outcomes stored in its results list.
C2_CountersSumToOutcomes ==
    \A i \in 1..Len(results) :
        /\ results[i].checks_passed >= 0
        /\ results[i].checks_failed >= 0
        /\ results[i].checks_warned >= 0
        /\ TotalChecks(results[i]) = Len(results[i].results)

C2_Witness ==
    /\ Len(results) = 2
    /\ results[1].checks_passed = 1
    /\ results[2].checks_failed = 1
    /\ TotalRecorded(results) = 2

\* C3: when validate_all returns, a category with total > 0 outcomes has
\* score * 2 * total = (2 * passed + warned) * 100, one with none has score
\* 0, and passed = 3, warned = 2, failed = 1 gives 66.67 within 0.01.
C3_CategoryScore ==
    Returned =>
        \A i \in 1..Len(results) :
            LET cat == results[i]
                total == TotalChecks(cat)
            IN  /\ total > 0 =>
                    cat.score.num * 2 * total
                        = (2 * cat.checks_passed + cat.checks_warned) * 100 * cat.score.den
                /\ total = 0 => cat.score = Zero
                /\ Counters(cat) = <<3, 1, 2>> =>
                    /\ 6666 * cat.score.den <= 100 * cat.score.num
                    /\ 100 * cat.score.num <= 6668 * cat.score.den

C3_Witness ==
    /\ Returned
    /\ \E i \in 1..Len(results) : Counters(results[i]) = <<3, 1, 2>>
    /\ \E i \in 1..Len(results) : results[i].checks_warned = 1 /\ TotalChecks(results[i]) = 3

\* the weighted sum of the stored category scores over a common denominator
RECURSIVE ProductOfDens(_)
ProductOfDens(res) ==
    IF res = <<>> THEN 1 ELSE Head(res).score.den * ProductOfDens(Tail(res))

RECURSIVE WeightedNums(_, _)
WeightedNums(res, common) ==
    IF res = <<>> THEN 0
    ELSE Head(res).score.num * (common \div Head(res).score.den) * Head(res).weight
         + WeightedNums(Tail(res), common)

RECURSIVE SumOfWeights(_)
SumOfWeights(res) == IF res = <<>> THEN 0 ELSE Head(res).weight + SumOfWeights(Tail(res))

\* C4: the overall score is sum(score * weight) / sum(weight) over exactly
\* the categories with a recorded outcome, and 0 when that weight sum is 0;
\* weights 70 and 30 with scores 80 and 50 give 71.
C4_OverallScore ==
    Returned =>
        LET common == ProductOfDens(results)
            weights == SumOfWeights(results)
        IN  /\ total_weight = weights
            /\ weights = 0 => overall_score = Zero
            /\ weights > 0 =>
                overall_score = Rat(WeightedNums(results, common), common * weights)
            /\ (/\ Len(results) = 2
                /\ results[1].weight = 70 /\ ScoreIs(results[1].score, 80)
                /\ results[2].weight = 30 /\ ScoreIs(results[2].score, 50))
               => ScoreIs(overall_score, 71)

C4_Witness ==
    /\ Returned
    /\ Len(results) = 2
    /\ results[1].weight = 70 /\ ScoreIs(results[1].score, 80)
    /\ results[2].weight = 30 /\ ScoreIs(results[2].score, 50)
    /\ ScoreIs(overall_score, 71)

C4_WitnessZeroWeights ==
    Returned /\ Len(results) > 0 /\ total_weight = 0 /\ results[1].score # Zero

ABC == <<Band("A", 95), Band("B", 80), Band("C", 60)>>

Qualifying(grading, score) ==
    {i \in 1..Len(grading) : score.num >= grading[i].min_percent * score.den}

\* C5: the grade is the first band, in the order of compliance_grading,
\* whose min_percent is <= the overall score (equality qualifies), and 'F'
\* when no band qualifies; with A=95, B=80, C=60 a score of 82 gives B and
\* a score of 40 gives 'F'.
C5_FirstQualifyingBand ==
    Returned =>
        LET grading == config.compliance_grading
            q == Qualifying(grading, overall_score)
        IN  /\ q = {} => grade = "F"
            /\ q # {} => \E i \in q : grade = grading[i].name /\ \A j \in q : i <= j
            /\ (grading = ABC /\ ScoreIs(overall_score, 82)) => grade = "B"
            /\ (grading = ABC /\ ScoreIs(overall_score, 40)) => grade = "F"

C5_Witness ==
    /\ Returned
    /\ config.compliance_grading = ABC
    /\ ScoreIs(overall_score, 82)
    /\ grade = "B"

C5_WitnessDefault ==
    Returned /\ config.compliance_grading = ABC /\ ScoreIs(overall_score, 40) /\ grade = "F"

C5_WitnessOnThreshold ==
    Returned /\ config.compliance_grading = ABC /\ ScoreIs(overall_score, 80) /\ grade = "B"

\* C6: once a run has an overall score, the exit status is 0 iff the score
\* is >= 95, 1 iff 70 <= score < 95 and 2 iff score < 70, whatever the
\* configured grade bands.
C6_ExitStatusByScore ==
    (pc = "exited" /\ grade # "") =>
        /\ exit_code = 0 <=> overall_score.num >= 95 * overall_score.den
        /\ exit_code = 1 <=> /\ overall_score.num >= 70 * overall_score.den
                             /\ overall_score.num < 95 * overall_score.den
        /\ exit_code = 2 <=> overall_score.num < 70 * overall_score.den

\* the configuration with only the weight of one category changed
WithWeight(cfg, category, w) ==
    [cfg EXCEPT !.validation_categories =
        [k \in DOMAIN cfg.validation_categories \cup {category} |->
            IF k = category THEN Weight(w) ELSE cfg.validation_categories[k]]]

OtherWeights == {0, 50}

\* C7: a category that ends the run with no recorded outcome takes no part
\* in the overall score: running validate_all on the same project with only
\* that category's configured weight changed returns the same overall score
\* and the same grade.
C7_EmptyCategoryWeightIrrelevant ==
    Returned =>
        \A c \in Categories : ~HasCategory(results, c) =>
            \A w \in OtherWeights :
                LET again == validate_all(WithWeight(config, c, w), project, <<>>)
                IN  /\ ~again.crash
                    /\ again.overall_score = overall_score
                    /\ again.grade = grade

C7_Witness ==
    /\ Returned
    /\ Len(results) >= 2
    /\ overall_score # Zero /\ overall_score # Hundred
    /\ \E c \in Categories :
        /\ ~HasCategory(results, c)
        /\ WeightOf(config, c) \notin OtherWeights

\* the flag an evaluator tests before anything else
EnabledFlag(cfg, category) ==
    IF category = "migrations"
    THEN Get(cfg.migrations, "enabled_for_supabase", FALSE)
    ELSE cfg[category].enabled

\* C8: a category whose enabled flag is false has no outcome and no entry
\* in the results mapping, hence none in the exported report, and the weight
\* sum of the overall score holds the weights of the entries only.
C8_DisabledCategoryAbsent ==
    \A c \in Categories : ~EnabledFlag(config, c) =>
        /\ ~HasCategory(results, c)
        /\ ~HasCategory(report.categories, c)
        /\ pc \in {"validated", "reported", "exited"} /\ grade # ""
             => total_weight = SumOfWeights(results)

C8_Witness ==
    /\ pc = "reported" /\ report.exported
    /\ Len(report.categories) = 7
    /\ \E c \in Categories :
        /\ ~EnabledFlag(config, c)
        /\ WeightOf(config, c) > 0
        /\ FileExists(project, ".gitignore")
        /\ c = "git"

\* C9: no outcome whose severity is outside 'critical', 'warning', 'info'
\* is ever tallied: recording it fails instead.
C9_UnknownSeverityRejected ==
    \A i \in 1..Len(results) : \A r \in Outcomes(results[i]) : r.severity \in Severities

\* C10: within one run no two outcomes stored in the same category tally
\* have the same check_name.
C10_CheckNameUnique ==
    \A i \in 1..Len(results) :
        \A j, k \in 1..Len(results[i].results) :
            results[i].results[j].check_name = results[i].results[k].check_name
                => j = k

\* the files the secret scan reads, and those of them with a forbidden pattern
ScannedFiles == FilesUnder(project, SecuritySourceDirs, TRUE)
FilesWithSecret == {i \in 1..Len(ScannedFiles) : HasSecret(ScannedFiles[i].content)}

PatternsIn(content) ==
    {k \in 1..Len(dangerous_patterns) : Contains(content, dangerous_patterns[k])}

SecretOutcomes ==
    {j \in 1..Len(TallyOf(results, "security").results) :
        TallyOf(results, "security").results[j].check_name = <<"no_hardcoded_secrets">>}

\* C11: when a forbidden pattern occurs in exactly one scanned source file,
\* the security category holds exactly one 'no_hardcoded_secrets' outcome,
\* failed and 'critical', however many patterns or matching lines the file
\* has.
C11_OneOutcomePerSecretFile ==
    (Returned /\ config.security.enabled /\ Cardinality(FilesWithSecret) = 1) =>
        /\ Cardinality(SecretOutcomes) = 1
        /\ \A j \in SecretOutcomes :
            LET r == TallyOf(results, "security").results[j]
            IN  ~r.passed /\ r.severity = "critical"

C11_Witness ==
    /\ Returned /\ config.security.enabled
    /\ Len(ScannedFiles) = 2
    /\ Cardinality(FilesWithSecret) = 1
    /\ \A i \in FilesWithSecret :
        /\ Cardinality(PatternsIn(ScannedFiles[i].content)) = 2
        /\ Contains(ScannedFiles[i].content, <<"\n">>)
    /\ Cardinality(SecretOutcomes) = 1
    /\ TallyOf(results, "security").checks_failed = 1

\* what a report says of the categories: name, counters and score of each
Summary(res) ==
    [i \in 1..Len(res) |-> <<res[i].name, Counters(res[i]), res[i].score>>]

\* C12: calling validate_all a second time on the same validator over an
\* unchanged project yields the same category counters, category scores,
\* overall score and grade as the first call.
C12_SecondCallIdempotent ==
    pc = "validated_again" =>
        LET first == validate_all(config, project, <<>>)
        IN  /\ Summary(results) = Summary(first.results)
            /\ overall_score = first.overall_score
            /\ grade = first.grade

\* every order in which a directory listing may return the entries of s
Reorderings(s) == {[i \in 1..Len(s) |-> s[f[i]]] : f \in Permutations(1..Len(s))}

\* C13: a second fresh validator over the same project and configuration
\* returns the same overall score, grade, category counters and category
\* scores, whatever order the directory listings return the files in.
C13_RunsAgree ==
    Returned =>
        \A sources \in Reorderings(project.sources) :
            \A root_md \in Reorderings(project.root_md) :
                \A migrations \in Reorderings(project.migrations) :
                    LET listed == [project EXCEPT !.sources = sources,
                                                  !.root_md = root_md,
                                                  !.migrations = migrations]
                        again == validate_all(config, listed, <<>>)
                    IN  /\ ~again.crash
                        /\ Summary(again.results) = Summary(results)
                        /\ again.overall_score = overall_score
                        /\ again.grade = grade

C13_Witness ==
    /\ Returned
    /\ Len(project.root_md) = 3
    /\ Len(ScannedFiles) = 2
    /\ FilesWithSecret = {2}
    /\ Cardinality(SecretOutcomes) = 1
    /\ HasCategory(results, "documentation")

\* C14: the grade validate_all returns is always a key of the configured
\* compliance_grading, also when no band's threshold is met.
C14_GradeIsConfiguredBand ==
    Returned => grade \in GradeNames(config)

InPercentRange(x) == x.den > 0 /\ 0 <= x.num /\ x.num <= 100 * x.den

\* C15: after validate_all every category score and the overall score lie
\* in [0, 100].
C15_ScoresInRange ==
    Returned =>
        /\ InPercentRange(overall_score)
        /\ \A i \in 1..Len(results) :
            /\ results[i].weight >= 0
            /\ InPercentRange(results[i].score)

C15_Witness ==
    /\ Returned
    /\ Len(results) = 2
    /\ results[1].score = Hundred /\ results[1].weight > 0
    /\ results[2].score = Zero /\ results[2].weight > 0
    /\ results[2].checks_failed = 2
    /\ overall_score # Zero /\ overall_score # Hundred

EnabledCategories == {c \in Categories : EnabledFlag(config, c)}

\* one category enabled, and every outcome recorded for it passed
OnlyOneCategoryAllPassed ==
    /\ Returned
    /\ Cardinality(EnabledCategories) = 1
    /\ Len(results) = 1
    /\ results[1].name \in EnabledCategories
    /\ \A r \in Outcomes(results[1]) : r.passed

TopGrade == config.compliance_grading[1].name

C16_WitnessZeroWeight ==
    OnlyOneCategoryAllPassed /\ results[1].weight = 0 /\ overall_score = Zero

MissingSections == Categories \ DOMAIN config

\* C17: a configuration that lacks a section an evaluator requires makes the
\* run fail before any evaluator has executed: when the run has failed, no
\* category has recorded an outcome.
C17_MalformedConfigFailsFast ==
    MissingSections # {} =>
        /\ pc \notin {"validated", "reported"}
        /\ pc = "crashed" => results = <<>>

HasConfiguredWeight(cfg, category) ==
    "weight" \in DOMAIN Get(cfg.validation_categories, category, <<>>)

\* C18: no run computes an overall score with a category tallied under a
\* weight the configuration does not give: when a category that records an
\* outcome has no weight entry, the run fails.
C18_MissingWeightFails ==
    Returned =>
        \A i \in 1..Len(results) : HasConfiguredWeight(config, results[i].name)

ExistenceCheck(category, check_name, paths, applies) ==
    [category |-> category, check_name |-> <<check_name>>, paths |-> paths,
     applies |-> applies]

\* the checks that test a file or directory for existence, with the paths
\* each accepts and the condition under which the evaluator makes the check
ExistenceChecks ==
    {ExistenceCheck("hooks", "lefthook_config_exists",
                    {".lefthook.yml", "lefthook.yml"}, TRUE),
     ExistenceCheck("hooks", "claude_settings_exists", {".claude/settings.json"}, TRUE),
     ExistenceCheck("documentation", "claude_md_exists", {"CLAUDE.md"}, TRUE),
     ExistenceCheck("documentation", "wip_directory_exists",
                    {config.documentation.wip_directory}, TRUE),
     ExistenceCheck("testing", "vitest_config_exists",
                    {config.testing.vitest.config_file, "apps/web/vitest.config.ts",
                     "apps/web/vitest.config.js"},
                    config.testing.vitest.required),
     ExistenceCheck("testing", "playwright_config_exists",
                    {config.testing.playwright.config_file},
                    /\ Get(config.testing.playwright, "required_for_web", FALSE)
                    /\ \/ FileExists(project, "next.config.js")
                       \/ FileExists(project, "next.config.mjs")),
     ExistenceCheck("quality_gates", "eslint_config_exists",
                    {config.quality_gates.eslint.config_file, ".eslintrc.json",
                     ".eslintrc.js", "eslint.config.js", "apps/web/eslint.config.mjs",
                     "apps/web/.eslintrc.json"},
                    config.quality_gates.eslint.required),
     ExistenceCheck("quality_gates", "typescript_config_exists",
                    {config.quality_gates.typescript.config_file},
                    config.quality_gates.typescript.required),
     ExistenceCheck("quality_gates", "prettier_config_exists",
                    {config.quality_gates.prettier.config_file},
                    config.quality_gates.prettier.required),
     ExistenceCheck("git", "gitignore_exists", {".gitignore"}, TRUE),
     ExistenceCheck("security", "env_example_exists",
                    {config.security.env_files.example_file_name}, TRUE)}

Absent(paths) == \A path \in paths : ~FileExists(project, path)

RecordedAs(category, check_name, passed) ==
    \E r \in Outcomes(TallyOf(results, category)) :
        r.check_name = check_name /\ r.passed = passed

\* C19: whatever subset of the files the checks look for is absent,
\* validate_all completes with a score and a grade, and every existence
\* check whose file is absent is recorded with passed = false.
C19_AbsentFilesNeverFatal ==
    pc # "start" =>
        /\ grade # ""
        /\ InPercentRange(overall_score)
        /\ \A c \in ExistenceChecks :
            (EnabledFlag(config, c.category) /\ c.applies /\ Absent(c.paths))
                => RecordedAs(c.category, c.check_name, FALSE)

C19_Witness ==
    /\ Returned
    /\ \A c \in ExistenceChecks :
        c.check_name # <<"claude_settings_exists">> => Absent(c.paths) /\ c.applies
    /\ ~FileExists(project, "package.json")
    /\ ~FileExists(project, "src")
    /\ ~FileExists(project, "supabase/migrations")
    /\ \A c \in ExistenceChecks :
        c.check_name # <<"claude_settings_exists">>
            => RecordedAs(c.category, c.check_name, FALSE)
    /\ ~HasCategory(results, "migrations")

StrictlyDescending(grading) ==
    \A i \in 1..(Len(grading) - 1) :
        grading[i].min_percent > grading[i + 1].min_percent

HighestQualifying(grading, score) ==
    CHOOSE i \in Qualifying(grading, score) :
        \A j \in Qualifying(grading, score) :
            grading[i].min_percent >= grading[j].min_percent

FirstQualifying(grading, score) ==
    CHOOSE i \in Qualifying(grading, score) :
        \A j \in Qualifying(grading, score) : i <= j

\* C20: with bands declared in strictly descending min_percent order the
\* grade is the qualifying band with the highest min_percent; with bands in
\* another order it is still the first qualifying band in configuration
\* order, with no re-sorting.
C20_BandOrderDecides ==
    (Returned /\ Qualifying(config.compliance_grading, overall_score) # {}) =>
        LET grading == config.compliance_grading
        IN  /\ StrictlyDescending(grading)
                => grade = grading[HighestQualifying(grading, overall_score)].name
            /\ ~StrictlyDescending(grading)
                => grade = grading[FirstQualifying(grading, overall_score)].name

C20_Witness ==
    /\ Returned
    /\ ~StrictlyDescending(config.compliance_grading)
    /\ overall_score.num >= 80 * overall_score.den
    /\ grade = "F"
    /\ config.compliance_grading[
          HighestQualifying(config.compliance_grading, overall_score)].name # "F"

C20_WitnessDescending ==
    /\ Returned
    /\ StrictlyDescending(config.compliance_grading)
    /\ Cardinality(Qualifying(config.compliance_grading, overall_score)) = 3
    /\ grade = "C"

\* C21: the secret scan records its failure once per scan: whenever at
\* least one scanned file contains a forbidden pattern, the security
\* category holds exactly one 'no_hardcoded_secrets' outcome and its
\* checks_failed is 1.
C21_SecretFailureOncePerScan ==
    (Returned /\ config.security.enabled /\ FilesWithSecret # {}) =>
        /\ Cardinality(SecretOutcomes) = 1
        /\ TallyOf(results, "security").checks_failed = 1

\* the project as a scan that skips unreadable files would see it
ReadableOnly(proj) ==
    [proj EXCEPT
        !.sources = SelectSeqOf(@, {f \in Range(@) : f.readable}),
        !.migrations = SelectSeqOf(@, {f \in Range(@) : f.readable})]

\* C22: a source or migration file that cannot be read is skipped and the
\* scan goes on: the run ends as the run over the same project without its
\* unreadable files ends, with the same tallies and the same grade, and is
\* never aborted.
C22_UnreadableFileSkipped ==
    pc # "start" =>
        LET skipped == validate_all(config, ReadableOnly(project), <<>>)
        IN  /\ results = skipped.results
            /\ grade = skipped.grade

\* the .sql files of the migrations directory the evaluator settles on
MigrationsDirExists ==
    \/ FileExists(project, "supabase/migrations")
    \/ FileExists(project, "apps/web/supabase/migrations")

MigrationFilesRead ==
    LET dir == IF FileExists(project, "supabase/migrations")
               THEN "supabase/migrations" ELSE "apps/web/supabase/migrations"
    IN  {i \in 1..Len(project.migrations) :
            project.migrations[i].dir = dir /\ project.migrations[i].sql}

\* the rule of the claim, on one file's content
Flagged(content) ==
    LET has(text) == Contains(content, <<text>>)
    IN  \/ (has("CREATE POLICY") \/ has("ADD CONSTRAINT")) /\ ~has("DO $$")
        \/ has("CREATE TRIGGER") /\ ~has("DROP TRIGGER IF EXISTS")

FlaggedMigrations ==
    {i \in MigrationFilesRead : Flagged(project.migrations[i].content)}

\* C23: after a completed run with migrations enabled and a migrations
\* directory present, the migrations category holds exactly one outcome,
\* 'migrations_idempotent' of severity 'critical', whatever the number of
\* .sql files, passed if and only if no file is flagged; without a
\* migrations directory the category has no outcome and no entry.
C23_OneAggregateMigrationOutcome ==
    (Returned /\ EnabledFlag(config, "migrations")) =>
        IF MigrationsDirExists
        THEN /\ HasCategory(results, "migrations")
             /\ LET recorded == TallyOf(results, "migrations").results
                IN  /\ Len(recorded) = 1
                    /\ recorded[1].check_name = <<"migrations_idempotent">>
                    /\ recorded[1].severity = "critical"
                    /\ recorded[1].passed <=> FlaggedMigrations = {}
        ELSE ~HasCategory(results, "migrations")

C23_Witness ==
    /\ Returned /\ EnabledFlag(config, "migrations")
    /\ Cardinality(MigrationFilesRead) = 3
    /\ Cardinality(FlaggedMigrations) = 2
    /\ HasCategory(results, "migrations")
    /\ TallyOf(results, "migrations").checks_failed = 1
    /\ TotalChecks(TallyOf(results, "migrations")) = 1

C23_WitnessNoDirectory ==
    /\ Returned /\ EnabledFlag(config, "migrations")
    /\ ~MigrationsDirExists
    /\ ~HasCategory(results, "migrations")

C23_WitnessPassed ==
    /\ Returned /\ EnabledFlag(config, "migrations")
    /\ MigrationFilesRead # {} /\ FlaggedMigrations = {}
    /\ TallyOf(results, "migrations").checks_passed = 1

\* the precondition of the Playwright check
PlaywrightApplies ==
    /\ config.testing.enabled
    /\ Get(config.testing.playwright, "required_for_web", FALSE)
    /\ \/ "next.config.js" \in project.exists
       \/ "next.config.mjs" \in project.exists

PlaywrightRecorded ==
    {j \in 1..Len(TallyOf(results, "testing").results) :
        TallyOf(results, "testing").results[j].check_name
            = <<"playwright_config_exists">>}

\* <<passed, failed, warned>> of a sequence of outcomes
RECURSIVE CountersOf(_)
CountersOf(outcomes) ==
    IF outcomes = <<>> THEN <<0, 0, 0>>
    ELSE LET e == Expected(Head(outcomes))
             rest == CountersOf(Tail(outcomes))
         IN  <<e[1] + rest[1], e[2] + rest[2], e[3] + rest[3]>>

\* C24: after a completed run the testing category holds one
\* 'playwright_config_exists' outcome if testing is enabled,
\* playwright.required_for_web is set and next.config.js or next.config.mjs
\* exists, and none otherwise; when the precondition fails the testing
\* counters are those of the Vitest checks alone.
C24_PlaywrightConditional ==
    Returned =>
        /\ Cardinality(PlaywrightRecorded) = (IF PlaywrightApplies THEN 1 ELSE 0)
        /\ ~PlaywrightApplies =>
              Counters(TallyOf(results, "testing"))
                = (IF config.testing.enabled /\ config.testing.vitest.required
                   THEN CountersOf(VitestOutcomes(config, project).out)
                   ELSE <<0, 0, 0>>)

C24_Witness ==
    /\ Returned /\ ~PlaywrightApplies
    /\ Get(config.testing.playwright, "required_for_web", FALSE)
    /\ HasCategory(results, "testing")
    /\ PlaywrightRecorded = {}
    /\ TotalChecks(TallyOf(results, "testing")) = 4

C24_WitnessApplies ==
    /\ Returned /\ PlaywrightApplies
    /\ \E j \in PlaywrightRecorded :
        ~TallyOf(results, "testing").results[j].passed
    /\ TallyOf(results, "testing").checks_warned >= 1

C24_WitnessNotRequired ==
    /\ Returned /\ config.testing.enabled
    /\ ~Get(config.testing.playwright, "required_for_web", FALSE)
    /\ "next.config.mjs" \in project.exists
    /\ ~HasCategory(results, "testing")

\* what a secret scan that stops at the first file with a forbidden pattern
\* would record
StopsAtFirstSecret ==
    IF FilesWithSecret = {} THEN <<>>
    ELSE <<ValidationResult("security", <<"no_hardcoded_secrets">>, FALSE, "critical")>>

\* every file of every existing naming source directory
NamingFiles == FilesUnder(project, NamingSourceDirs, FALSE)

\* C25: the secret scan stops at the first file with a forbidden pattern, so
\* the security category holds the example-file outcome and at most one
\* secret outcome; the naming scan visits every file of every source
\* directory, so its single outcome fails exactly when some file anywhere
\* has a forbidden suffix.
C25_SecretScanStopsNamingScanComplete ==
    Returned =>
        /\ config.security.enabled =>
              Len(TallyOf(results, "security").results) = 1 + Len(StopsAtFirstSecret)
        /\ config.naming_conventions.enabled =>
              /\ Len(TallyOf(results, "naming_conventions").results) = 1
              /\ TallyOf(results, "naming_conventions").results[1].passed
                   <=> \A i \in 1..Len(NamingFiles) :
                          ~HasForbiddenSuffix(config, NamingFiles[i])

\* C27: one call of _add_result for category c leaves the entry of every
\* other category as it was (counters, weight, score and results) and
\* creates none; c's results list is the old list with the new outcome
\* appended at the end; c's weight is the configured weight when the entry
\* is created and does not change afterwards; no counter of c decreases.
C27_RecordTouchesOneCategory ==
    [][(pc = "start" /\ pc' = "start" /\ results' # results) =>
        \E c \in Categories :
            LET new == TallyOf(results', c)
                old == TallyOf(results, c)
            IN  /\ HasCategory(results', c)
                /\ \A d \in Categories \ {c} :
                      /\ HasCategory(results', d) <=> HasCategory(results, d)
                      /\ TallyOf(results', d) = TallyOf(results, d)
                /\ Len(new.results) = Len(old.results) + 1
                /\ SubSeq(new.results, 1, Len(old.results)) = old.results
                /\ new.weight = (IF HasCategory(results, c) THEN old.weight
                                 ELSE WeightOf(config, c))
                /\ new.score = old.score
                /\ \A k \in 1..3 : Counters(new)[k] >= Counters(old)[k]]_vars

C27_Witness ==
    /\ pc = "start"
    /\ \E i \in 1..Len(results) :
        /\ Len(results[i].results) = 2
        /\ results[i].results[1].passed /\ ~results[i].results[2].passed
        /\ results[i].weight # 0

C27_WitnessOtherCategory ==
    /\ pc = "start"
    /\ Len(results) = 2
    /\ results[1].name = "security" /\ results[1].checks_warned = 1
    /\ results[2].name = "hooks" /\ results[2].checks_failed = 1

\* the existence check a check depends on, <<>> when it depends on none
ExistenceCheckOf(check_name) ==
    CASE check_name[1] \in {"pre_commit_", "pre_push_"} -> <<"lefthook_config_exists">>
      [] check_name[1] = "claude_section_" -> <<"claude_md_exists">>
      [] check_name = <<"vitest_coverage_configured">> -> <<"vitest_config_exists">>
      [] check_name = <<"typescript_strict_mode">> -> <<"typescript_config_exists">>
      [] check_name[1] = "gitignore_has_" -> <<"gitignore_exists">>
      [] OTHER -> <<>>

DependentRecorded(category) ==
    {j \in 1..Len(TallyOf(results, category).results) :
        ExistenceCheckOf(TallyOf(results, category).results[j].check_name) # <<>>}

\* C28: at every point of a run, each recorded dependent check (pre_commit_*,
\* pre_push_*, claude_section_*, vitest_coverage_configured,
\* typescript_strict_mode, gitignore_has_*) is preceded in its category by
\* the outcome of its existence check, and that outcome passed.
C28_DependentAfterPassingExistence ==
    \A i \in 1..Len(results) :
        \A j \in DependentRecorded(results[i].name) :
            \E k \in 1..(j - 1) :
                /\ results[i].results[k].check_name
                     = ExistenceCheckOf(results[i].results[j].check_name)
                /\ results[i].results[k].passed

C28_Witness ==
    /\ Returned
    /\ Cardinality(DependentRecorded("hooks")) = 3
    /\ Cardinality(DependentRecorded("documentation")) = 2
    /\ Cardinality(DependentRecorded("testing")) = 1
    /\ Cardinality(DependentRecorded("quality_gates")) = 1
    /\ Cardinality(DependentRecorded("git")) = 2

C28_WitnessExistenceFailed ==
    /\ Returned
    /\ RecordedAs("hooks", <<"lefthook_config_exists">>, FALSE)
    /\ RecordedAs("quality_gates", <<"typescript_config_exists">>, FALSE)
    /\ DependentRecorded("hooks") = {}
    /\ DependentRecorded("quality_gates") = {}

\* C29: after a completed run with security enabled and no forbidden pattern
\* in any scanned file, the security category holds the single outcome
\* 'env_example_exists' of severity 'warning' and no 'no_hardcoded_secrets'
\* outcome, and its score is 100 if the example file exists and 50 if not.
C29_CleanScanRecordsNothing ==
    (Returned /\ config.security.enabled /\ FilesWithSecret = {}) =>
        LET security == TallyOf(results, "security")
            example_exists ==
                config.security.env_files.example_file_name \in project.exists
        IN  /\ SecretOutcomes = {}
            /\ Len(security.results) = 1
            /\ security.results[1].check_name = <<"env_example_exists">>
            /\ security.results[1].severity = "warning"
            /\ security.results[1].passed <=> example_exists
            /\ ScoreIs(security.score, IF example_exists THEN 100 ELSE 50)

C29_Witness ==
    /\ Returned /\ config.security.enabled
    /\ Len(ScannedFiles) >= 1 /\ FilesWithSecret = {}
    /\ ScoreIs(TallyOf(results, "security").score, 50)
    /\ TallyOf(results, "security").checks_warned = 1

C29_WitnessExampleExists ==
    /\ Returned /\ config.security.enabled
    /\ Len(ScannedFiles) >= 1 /\ FilesWithSecret = {}
    /\ ScoreIs(TallyOf(results, "security").score, 100)
    /\ TotalChecks(TallyOf(results, "security")) = 1

\* every recorded outcome, category by category in insertion order
RECURSIVE AllOutcomes(_)
AllOutcomes(res) ==
    IF res = <<>> THEN <<>> ELSE Head(res).results \o AllOutcomes(Tail(res))

\* the ways to improve one outcome: non-passing to passing, or a critical
\* failure to a warned (warning or info) failure
Improved(r) ==
    IF r.passed THEN {}
    ELSE {[r EXCEPT !.passed = TRUE]}
         \cup (IF r.severity = "critical"
               THEN {[r EXCEPT !.severity = s] : s \in {"warning", "info"}}
               ELSE {})

\* the tallies, scores and overall score of the same outcomes with outcome j
\* replaced by r
Rescored(j, r) ==
    LET outcomes == [AllOutcomes(results) EXCEPT ![j] = r]
        scored == ScoreLoop(AddResults(<<>>, config, outcomes), 1, Zero, 0)
    IN  [results |-> scored.results,
         overall_score |-> OverallScore(scored.total_score, scored.total_weight)]

\* C30: when validate_all has returned, improving any one recorded outcome
\* (the other outcomes and the weights unchanged) and scoring again gives a
\* score of its category that is not lower and an overall score that is not
\* lower.
C30_ScoringMonotone ==
    Returned =>
        \A j \in 1..Len(AllOutcomes(results)) :
            \A r \in Improved(AllOutcomes(results)[j]) :
                LET again == Rescored(j, r)
                IN  /\ RatGE(TallyOf(again.results, r.category).score,
                             TallyOf(results, r.category).score)
                    /\ RatGE(again.overall_score, overall_score)

C30_Witness ==
    /\ Returned
    /\ Len(results) = 2
    /\ \A i \in 1..2 : results[i].checks_failed >= 1 /\ results[i].checks_warned >= 1
                       /\ results[i].checks_passed >= 1 /\ results[i].weight > 0
    /\ \E j \in 1..Len(AllOutcomes(results)) :
        \E r \in Improved(AllOutcomes(results)[j]) :
            /\ r.severity = "info"
            /\ RatLT(overall_score, Rescored(j, r).overall_score)

C30_WitnessZeroWeight ==
    /\ Returned
    /\ \E j \in 1..Len(AllOutcomes(results)) :
        \E r \in Improved(AllOutcomes(results)[j]) :
            /\ TallyOf(results, r.category).weight = 0
            /\ RatLT(TallyOf(results, r.category).score,
                     TallyOf(Rescored(j, r).results, r.category).score)
            /\ Rescored(j, r).overall_score = overall_score
            /\ overall_score # Zero

\* the fixed order with the evaluators at positions i and j exchanged
Swapped(order, i, j) ==
    [k \in 1..Len(order) |->
        IF k = i THEN order[j] ELSE IF k = j THEN order[i] ELSE order[k]]

EvaluatorOrders ==
    {Swapped(EvaluatorOrder, i, j) : i, j \in 1..Len(EvaluatorOrder)}
    \cup {[k \in 1..Len(EvaluatorOrder) |-> EvaluatorOrder[Len(EvaluatorOrder) + 1 - k]]}

\* C26: running the eight evaluators in another order over the same project
\* and configuration gives every category the same counters and score, and
\* gives the same overall score and the same grade as the fixed order.
C26_EvaluatorOrderIrrelevant ==
    Returned =>
        \A order \in EvaluatorOrders :
            LET run == RunEvaluators(config, project, <<>>, order)
                overall == OverallScore64(run.results)
                fixed == OverallScore64(results)
            IN  /\ ~run.crash
                /\ \A c \in Categories :
                      /\ HasCategory(run.results, c) <=> HasCategory(results, c)
                      /\ Counters(TallyOf(run.results, c)) = Counters(TallyOf(results, c))
                      /\ HasCategory(results, c) =>
                            CategoryScore64(TallyOf(run.results, c))
                              = CategoryScore64(TallyOf(results, c))
                /\ overall = fixed
                /\ DetermineGrade64(config.compliance_grading, overall)
                     = DetermineGrade64(config.compliance_grading, fixed)

====
